---- MODULE Spec2Model ----
(***************************************************************************)
(* WasmPageManager (core/src/nucleus/ribosome/memory.rs): a memory manager *)
(* limited to one wasm memory page that works like a stack.  allocate,     *)
(* write and read are translated from memory.rs.  WasmStack,               *)
(* WasmAllocation and the handle codec live in holochain_wasm_utils, which *)
(* memory.rs only imports; they are modelled from spec.md sections 3, 4.1  *)
(* and 4.2.  The widths are scaled down: MemoryInt has NBits bits,         *)
(* MemoryBits has 2*NBits bits, the page has Capacity bytes.  The memory   *)
(* itself is the one the module exports: its size and content are the     *)
(* module's, and a clone of the manager shares it.                         *)
(***************************************************************************)
EXTENDS Integers, Sequences, FiniteSets, TLC

\* ---------------------------------------------------------------- bounds
\* Width of MemoryInt (an offset, a length) in bits; 16 or 32 in the program.
NBits == 2

\* Size of the backing page in bytes; 65536 in the program.
PageBytes == 4

\* Longest data for which write is tried with every content.
FullLen == 2

\* Values a byte of data can take.
Bytes == {0, 1}

RECURSIVE Pow2(_)
Pow2(n) == IF n = 0 THEN 1 ELSE 2 * Pow2(n - 1)

\* spec.md section 6: the page capacity must not exceed 2^N.
Capacity == IF PageBytes <= Pow2(NBits) THEN PageBytes ELSE Pow2(NBits)

\* Longest data handed to write: one byte beyond the first oversize length.
\* It stays below 2^(2N), so data.len() is never wider than MemoryBits.
MaxDataLen == Pow2(NBits) + 1

\* ------------------------------------------------- holochain_wasm_utils
\* `x as MemoryInt` and `x as MemoryBits`: truncating casts.
AsMemoryInt(n) == n % Pow2(NBits)
AsMemoryBits(n) == n % Pow2(2 * NBits)

\* WasmAllocation::max(): the largest length the handle codec represents.
WasmAllocationMax == Pow2(NBits) - 1

\* AllocationResult: Ok(WasmAllocation{offset, length}) or Err(AllocationError).
Ok(offset, length) ==
    [kind |-> "ok", err |-> "none", offset |-> offset, length |-> length]
Err(e) == [kind |-> "err", err |-> e, offset |-> 0, length |-> 0]

\* WasmAllocation::new(offset, length): a data handle has length >= 1, both
\* fields fit in N bits and the range ends inside the page.
WasmAllocationNew(offset, length) ==
    IF length = 0 THEN Err("ZeroLength")
    ELSE IF \/ offset > WasmAllocationMax
            \/ length > WasmAllocationMax
            \/ offset + length > Capacity
         THEN Err("OutOfBounds")
         ELSE Ok(offset, length)

\* WasmStack::next_allocation(length): reserve.  offset = current top;
\* length >= 1, else ZeroLength; offset + length <= capacity, else
\* OutOfBounds; the stack is not changed.
StackNextAllocation(top, length) ==
    IF length = 0 THEN Err("ZeroLength")
    ELSE IF top + length > Capacity THEN Err("OutOfBounds")
    ELSE Ok(top, length)

\* WasmStack::allocate(allocation): commit.  The top becomes
\* offset + length; the value returned is the top before the call.
StackAllocate(top, allocation) ==
    [kind |-> "ok", err |-> "none", ret |-> top,
     top |-> allocation.offset + allocation.length]

\* MemoryInt::from(top): the stack top as a MemoryInt.
MemoryIntFromTop(t) == AsMemoryInt(t)

\* Handle codec: offset in the high half of the scalar, length in the low.
RECURSIVE BitOr(_, _, _)
BitOr(a, b, w) ==
    IF w = 0 THEN 0
    ELSE (IF a % 2 = 1 \/ b % 2 = 1 THEN 1 ELSE 0)
         + 2 * BitOr(a \div 2, b \div 2, w - 1)

RECURSIVE BitAnd(_, _, _)
BitAnd(a, b, w) ==
    IF w = 0 THEN 0
    ELSE (IF a % 2 = 1 /\ b % 2 = 1 THEN 1 ELSE 0)
         + 2 * BitAnd(a \div 2, b \div 2, w - 1)

ShiftLeft(a, k) == AsMemoryBits(a * Pow2(k))
ShiftRight(a, k) == a \div Pow2(k)

\* A decoder whose shift is one bit short.
DecodeShortShift(scalar) ==
    [offset |-> ShiftRight(scalar, NBits - 1),
     length |-> BitAnd(scalar, Pow2(NBits) - 1, 2 * NBits)]

Encode(offset, length) == BitOr(ShiftLeft(offset, NBits), length, 2 * NBits)
Decode(scalar) ==
    [offset |-> ShiftRight(scalar, NBits),
     length |-> BitAnd(scalar, Pow2(NBits) - 1, 2 * NBits)]

\* ------------------------------------------------------- wasmi MemoryRef
\* The memory the module exports: its bytes, addressed from 0.
MemIndex(m) == DOMAIN m
MemSize(m) == Cardinality(DOMAIN m)

\* MemoryRef::set(offset, data): Err when the range leaves the memory.
MemSet(m, offset, data) ==
    IF offset + Len(data) > MemSize(m)
    THEN [kind |-> "err", mem |-> m]
    ELSE [kind |-> "ok",
          mem |-> [i \in MemIndex(m) |->
                     IF i >= offset /\ i < offset + Len(data)
                     THEN data[i - offset + 1] ELSE m[i]]]

\* MemoryRef::get(offset, size): Err when the range leaves the memory.
MemGet(m, offset, size) ==
    IF offset + size > MemSize(m)
    THEN [kind |-> "err", bytes |-> <<>>]
    ELSE [kind |-> "ok", bytes |-> [i \in 1 .. size |-> m[offset + i - 1]]]

\* ------------------------------------------------------ WasmPageManager
\* A stack that hands out the range at its top without reserving it and a
\* handle without validating it.
AllocateUnchecked(top, length) ==
    LET c == StackAllocate(top, Ok(top, length)) IN
    [top |-> c.top, res |-> Ok(MemoryIntFromTop(c.ret), length)]

\* A stack whose top is not advanced by an allocation.
AllocateNoCommit(top, length) ==
    LET allocation == StackNextAllocation(top, length) IN
    IF allocation.kind = "err" THEN [top |-> top, res |-> allocation]
    ELSE [top |-> top, res |-> WasmAllocationNew(top, length)]

\* A handle built from the top after the commit instead of the one returned.
AllocateNewTop(top, length) ==
    LET allocation == StackNextAllocation(top, length) IN
    IF allocation.kind = "err" THEN [top |-> top, res |-> allocation]
    ELSE LET c == StackAllocate(top, allocation) IN
         [top |-> c.top,
          res |-> WasmAllocationNew(MemoryIntFromTop(c.top), length)]

\* allocate(length): the stack top after the call and the result.
Allocate(top, length) ==
    LET allocation == StackNextAllocation(top, length) IN
    IF allocation.kind = "err" THEN [top |-> top, res |-> allocation]
    ELSE LET c == StackAllocate(top, allocation) IN
         IF c.kind = "err" THEN [top |-> top, res |-> Err(c.err)]
         ELSE [top |-> c.top,
               res |-> WasmAllocationNew(MemoryIntFromTop(c.ret), length)]

\* The length test of write with the bound one too high.
TooLongOffByOne(data) == AsMemoryBits(Len(data)) > WasmAllocationMax + 1

\* data.len() as MemoryBits > WasmAllocation::max()
TooLong(data) == AsMemoryBits(Len(data)) > WasmAllocationMax

\* The error of the other early return.
EmptyErrorSwapped == "OutOfBounds"

\* The error write returns for empty data.
EmptyError == "ZeroLength"

\* The copy placed at the stack top after the allocation.
CopyOffsetAtTop(a) == a.top

\* The copy placed at the bottom of the page.
CopyOffsetBottom(a) == 0

\* MemoryInt::from(mem_buf.offset()): where write copies the data.
CopyOffset(a) == a.res.offset

\* write(data): the stack top and the page after the call, and the result.
\* kind "panic" is the expect() on the copy into the page.
Write(top, m, data) ==
    IF TooLong(data)
    THEN [top |-> top, mem |-> m, res |-> Err("OutOfBounds")]
    ELSE IF Len(data) = 0
    THEN [top |-> top, mem |-> m, res |-> Err(EmptyError)]
    ELSE LET a == Allocate(top, AsMemoryInt(Len(data))) IN
         IF a.res.kind = "err" THEN [top |-> a.top, mem |-> m, res |-> a.res]
         ELSE LET s == MemSet(m, CopyOffset(a), data) IN
              IF s.kind = "err"
              THEN [top |-> a.top, mem |-> m,
                    res |-> [a.res EXCEPT !.kind = "panic"]]
              ELSE [top |-> a.top, mem |-> s.mem, res |-> a.res]

\* read(allocation): the bytes of the range; kind "panic" is the expect().
Read(m, allocation) ==
    LET g == MemGet(m, allocation.offset, allocation.length) IN
    IF g.kind = "err" THEN [kind |-> "panic", bytes |-> <<>>]
    ELSE [kind |-> "ok", bytes |-> g.bytes]

\* ---------------------------------------------------------------- state
\* One manager is followed call by call.  Its clone, or the manager it was
\* cloned from, is the peer: a stack of its own over the same memory.
VARIABLES
    top,     \* stack: the next free offset of the page
    peer,    \* the stack top of the peer: <<>> before any clone, <<t>> after
    mem,     \* wasm_memory: the bytes of the memory the module exports
    issued,  \* the handles this manager has returned so far
    last     \* the last call: its input and what it returned

vars == <<top, peer, mem, issued, last>>

\* Inputs of new: a module with no export named "memory", one whose export
\* of that name is not a memory, and modules that export a memory: empty,
\* shorter than the page, as long, or longer.  The bytes of the page are
\* any bytes; the bytes beyond the page, which no manager writes, are 1 in
\* the memory a module starts with and 0 where the memory has grown.
MemSizes == {0, Capacity - 2, Capacity, Capacity + 2}
ModuleMemories ==
    {[i \in 0 .. (n - 1) |-> IF i < Capacity THEN m[i] ELSE 1] :
        n \in MemSizes, m \in [0 .. (Capacity - 1) -> Bytes]}
NoMemory == [i \in {} |-> 0]
ModuleInputs ==
    {[export |-> e, mem |-> NoMemory] : e \in {"none", "function"}}
        \cup {[export |-> "memory", mem |-> m] : m \in ModuleMemories}

\* Inputs of write: every byte sequence of at most FullLen bytes, and two
\* alternating sequences of every greater length up to MaxDataLen.
SeqsOfLen(n) == IF n = 0 THEN {<<>>} ELSE [1 .. n -> Bytes]
Pattern(n, s) == [i \in 1 .. n |-> (i + s) % 2]
DataInputs ==
    UNION {SeqsOfLen(n) : n \in 0 .. FullLen}
        \cup {Pattern(n, s) : n \in (FullLen + 1) .. MaxDataLen, s \in Bytes}

\* Inputs of allocate: every Length.
LengthInputs == 0 .. (Pow2(NBits) - 1)

\* Inputs of read: the scalar of every handle issued so far, and a forged
\* one: the largest scalar, whose range ends beyond the page, inside the
\* longer memory and outside the others.
ForgedScalars == {Pow2(2 * NBits) - 1}
ScalarInputs == {Encode(h.offset, h.length) : h \in issued} \cup ForgedScalars

\* The record of a call: the operation, the result, the scalar that crossed
\* the boundary, the bytes copied into the page (by a successful write) and
\* the bytes copied out of it (by read).
Call(op, res, scalar, data, bytes) ==
    [op |-> op, kind |-> res.kind, err |-> res.err,
     offset |-> res.offset, length |-> res.length, scalar |-> scalar,
     data |-> data, bytes |-> bytes]

\* A handle as it is remembered: its range.
Issue(res) == [offset |-> res.offset, length |-> res.length]

\* A step of the module on its own memory.
ModuleCall == Call("module", Ok(0, 0), 0, <<>>, <<>>)

\* A call of the peer: only its effect on the shared memory is kept.
PeerCall == Call("peer", Ok(0, 0), 0, <<>>, <<>>)

\* WasmPageManager::new: an empty stack over the memory the module exports,
\* taken as it is; a panic, and no manager, when the module has no export
\* named "memory" or that export is not a memory.
Init ==
    \E module \in ModuleInputs :
        /\ top = 0
        /\ peer = <<>>
        /\ mem = module.mem
        /\ issued = {}
        /\ last = Call("new",
                       IF module.export = "memory" THEN Ok(0, 0)
                       ELSE [Err(module.export) EXCEPT !.kind = "panic"],
                       0, <<>>, <<>>)

\* A manager exists: new has not panicked.
Alive == ~(last.op = "new" /\ last.kind = "panic")

\* #[derive(Clone)]: a second manager with a copy of the stack, over the
\* same memory.  The manager followed from here on is the original, with
\* the handles it has issued, or the clone, which has issued none.
DoClone ==
    /\ Alive /\ peer = <<>>
    /\ peer' = <<top>>
    /\ \E followed \in {"original", "clone"} :
           issued' = IF followed = "clone" THEN {} ELSE issued
    /\ last' = Call("clone", Ok(0, 0), 0, <<>>, <<>>)
    /\ UNCHANGED <<top, mem>>

\* An allocate that fills the range it hands out.
DoAllocateFilling ==
    /\ Alive
    /\ \E length \in LengthInputs :
        LET r == Allocate(top, length) IN
        /\ top' = r.top
        /\ mem' = IF r.res.kind = "ok"
                  THEN MemSet(mem, r.res.offset,
                              [i \in 1 .. r.res.length |-> 1]).mem
                  ELSE mem
        /\ issued' = IF r.res.kind = "ok" THEN issued \cup {Issue(r.res)}
                     ELSE issued
        /\ last' = Call("allocate", r.res,
                        Encode(r.res.offset, r.res.length), <<>>, <<>>)
        /\ peer' = peer

DoAllocate ==
    /\ Alive
    /\ \E length \in LengthInputs :
        LET r == Allocate(top, length) IN
        /\ top' = r.top
        /\ mem' = mem
        /\ issued' = IF r.res.kind = "ok" THEN issued \cup {Issue(r.res)}
                     ELSE issued
        /\ last' = Call("allocate", r.res,
                        Encode(r.res.offset, r.res.length), <<>>, <<>>)
        /\ peer' = peer

DoWrite ==
    /\ Alive
    /\ \E data \in DataInputs :
        LET r == Write(top, mem, data) IN
        /\ top' = r.top
        /\ mem' = r.mem
        /\ issued' = IF r.res.kind = "ok" THEN issued \cup {Issue(r.res)}
                     ELSE issued
        /\ last' = Call("write", r.res,
                        Encode(r.res.offset, r.res.length),
                        IF r.res.kind = "ok" THEN data ELSE <<>>, <<>>)
        /\ peer' = peer

\* A read that clears the bytes it returns.
DoReadClearing ==
    /\ Alive
    /\ \E scalar \in ScalarInputs :
        LET allocation == Decode(scalar)
            r == Read(mem, allocation) IN
        /\ last' = Call("read",
                        [kind |-> r.kind, err |-> "none",
                         offset |-> allocation.offset,
                         length |-> allocation.length],
                        scalar, <<>>, r.bytes)
        /\ mem' = IF r.kind = "ok"
                  THEN MemSet(mem, allocation.offset,
                              [i \in 1 .. allocation.length |-> 0]).mem
                  ELSE mem
        /\ UNCHANGED <<top, peer, issued>>

DoRead ==
    /\ Alive
    /\ \E scalar \in ScalarInputs :
        LET allocation == Decode(scalar)
            r == Read(mem, allocation) IN
        /\ last' = Call("read",
                        [kind |-> r.kind, err |-> "none",
                         offset |-> allocation.offset,
                         length |-> allocation.length],
                        scalar, <<>>, r.bytes)
        /\ UNCHANGED <<top, peer, mem, issued>>

\* allocate and write called on the peer: its own stack moves, the shared
\* memory takes the bytes.  (A read of the peer changes nothing.)
DoPeerAllocate ==
    /\ peer # <<>>
    /\ \E length \in LengthInputs :
           peer' = <<Allocate(peer[1], length).top>>
    /\ last' = PeerCall
    /\ UNCHANGED <<top, mem, issued>>

DoPeerWrite ==
    /\ peer # <<>>
    /\ \E data \in DataInputs :
           LET r == Write(peer[1], mem, data) IN
           peer' = <<r.top>> /\ mem' = r.mem
    /\ last' = PeerCall
    /\ UNCHANGED <<top, issued>>

\* wasm_memory is a reference to the memory of the module, which the
\* module can grow: the bytes it had, then zero bytes, up to the next size.
Grown(m, n) == [i \in 0 .. (n - 1) |-> IF i \in DOMAIN m THEN m[i] ELSE 0]

DoGrow ==
    /\ Alive
    /\ \E n \in MemSizes :
           /\ n > MemSize(mem)
           /\ \A k \in MemSizes : k > MemSize(mem) => k >= n
           /\ mem' = Grown(mem, n)
    /\ last' = ModuleCall
    /\ UNCHANGED <<top, peer, issued>>

Next ==
    \/ DoClone \/ DoAllocate \/ DoWrite \/ DoRead
    \/ DoPeerAllocate \/ DoPeerWrite \/ DoGrow

Spec == Init /\ [][Next]_vars

MaxLength == WasmAllocationMax
HandleOf(c) == [offset |-> c.offset, length |-> c.length]
IsHandleCall(c) == c.op \in {"allocate", "write"} /\ c.kind = "ok"

\* C1: round trip.  In every reachable state, for every input b of write
\* with 1 <= len(b) <= max_length, if write(b) returns a handle then read of
\* that handle, on the page as write left it, returns exactly b.
C1_RoundTrip ==
    \A b \in DataInputs :
        (Len(b) >= 1 /\ Len(b) <= MaxLength) =>
            LET w == Write(top, mem, b) IN
            w.res.kind = "ok" =>
                Read(w.mem, HandleOf(w.res)) = [kind |-> "ok", bytes |-> b]

\* A write of two different bytes above the bottom of the stack has
\* returned a handle, and read of it gives the bytes back.
C1_Witness ==
    /\ last.op = "write" /\ last.kind = "ok"
    /\ last.offset >= 1 /\ last.length >= 2
    /\ last.data[1] # last.data[2]
    /\ Read(mem, HandleOf(last)).bytes = last.data

\* C2: oversize rejection.  In every reachable state, write of data longer
\* than max_length = 2^N - 1 returns OutOfBounds and changes nothing; the
\* boundary length 2^N is among the lengths tried.
C2_OversizeRejected ==
    /\ \E b \in DataInputs : Len(b) = Pow2(NBits)
    /\ \A b \in DataInputs :
           Len(b) > MaxLength =>
               Write(top, mem, b) =
                   [top |-> top, mem |-> mem, res |-> Err("OutOfBounds")]

\* On an empty stack of a page that has room for every length up to
\* max_length, write has returned OutOfBounds: its data was longer.
C2_Witness ==
    /\ top = 0 /\ MaxLength <= Capacity
    /\ last.op = "write"
    /\ last.kind = "err" /\ last.err = "OutOfBounds"

\* C3: capacity exhaustion.  In every reachable state, allocate(L) and
\* write of L bytes with 1 <= L <= max_length and top + L > capacity
\* return OutOfBounds.
C3_CapacityExhaustion ==
    \A L \in 1 .. MaxLength :
        top + L > Capacity =>
            /\ Allocate(top, L).res = Err("OutOfBounds")
            /\ \A b \in DataInputs :
                   Len(b) = L => Write(top, mem, b).res = Err("OutOfBounds")

\* An allocate, whose length fits in N bits, has returned OutOfBounds on a
\* stack that is neither empty nor full: the range ends beyond the page.
C3_Witness ==
    /\ last.op = "allocate"
    /\ last.kind = "err" /\ last.err = "OutOfBounds"
    /\ top >= 1 /\ top < Capacity

\* C4: stack monotonicity.  The handle of a successful write starts at or
\* after the end of every handle the same manager returned before it, those
\* of its earlier writes among them.
C4_StackMonotonic ==
    [][(last'.op = "write" /\ last'.kind = "ok") =>
          \A h \in issued : last'.offset >= h.offset + h.length]_vars

\* A write has returned a handle after two earlier handles of the manager.
C4_Witness ==
    /\ last.op = "write" /\ last.kind = "ok"
    /\ \E w \in issued, a \in issued :
           /\ a.offset >= w.offset + w.length
           /\ last.offset >= a.offset + a.length

\* C5: zero-length rejection.  In every reachable state, write of the
\* empty sequence returns ZeroLength and changes nothing.
C5_ZeroLengthRejected ==
    Write(top, mem, <<>>) =
        [top |-> top, mem |-> mem, res |-> Err("ZeroLength")]

\* On a full stack, write of the empty sequence has returned ZeroLength.
C5_Witness ==
    /\ top = Capacity
    /\ last.op = "write"
    /\ last.kind = "err" /\ last.err = "ZeroLength"

\* C6: status/data disjointness.  Every handle returned by write or
\* allocate has length >= 1, also after it crossed the boundary as a scalar.
C6_NoZeroLengthHandle ==
    /\ \A h \in issued :
           /\ h.length >= 1
           /\ Decode(Encode(h.offset, h.length)).length >= 1
    /\ IsHandleCall(last) =>
           (last.length >= 1 /\ Decode(last.scalar).length >= 1)

\* Handles have been returned, and allocate(0) was the last call.
C6_Witness ==
    /\ Cardinality(issued) >= 2
    /\ last.op = "allocate"
    /\ last.kind = "err" /\ last.err = "ZeroLength"

\* C7: a failed write or allocate leaves the manager unchanged.  In every
\* reachable state, a call that returns an error returns ZeroLength or
\* OutOfBounds, carries no handle, and leaves the stack top and the page as
\* they were.
C7_FailureChangesNothing ==
    /\ \A L \in LengthInputs :
           LET a == Allocate(top, L) IN
           a.res.kind = "err" =>
               /\ a.res \in {Err("ZeroLength"), Err("OutOfBounds")}
               /\ a.top = top
    /\ \A b \in DataInputs :
           LET w == Write(top, mem, b) IN
           w.res.kind = "err" =>
               /\ w.res \in {Err("ZeroLength"), Err("OutOfBounds")}
               /\ w.top = top
               /\ w.mem = mem

\* A call has failed on a stack that holds a handle up to its top, and a
\* later call is still given the range at the old top.
C7_Witness ==
    /\ last.op = "write"
    /\ last.kind = "err" /\ last.err = "OutOfBounds"
    /\ top >= 1 /\ top < Capacity
    /\ \E h \in issued : h.offset + h.length = top
    /\ Write(top, mem, <<1>>).res = Ok(top, 1)

\* C8: every handle returned by write or allocate has offset and length
\* representable in N bits and offset + length <= capacity, so the range a
\* read of it asks for lies inside the page; the read returns that many
\* bytes whenever the memory holds the page.
C8_HandleInPage ==
    \A h \in issued :
        /\ h.offset \in 0 .. (Pow2(NBits) - 1)
        /\ h.length \in 0 .. (Pow2(NBits) - 1)
        /\ h.offset + h.length <= Capacity
        /\ \A i \in h.offset .. (h.offset + h.length - 1) :
               i \in 0 .. (Capacity - 1)
        /\ MemSize(mem) >= Capacity =>
               (Read(mem, h).kind = "ok" /\ Len(Read(mem, h).bytes) = h.length)

\* A handle that ends at the last byte of the page has been read.
C8_Witness ==
    /\ last.op = "read" /\ last.kind = "ok"
    /\ last.offset >= 1 /\ last.offset + last.length = Capacity
    /\ \E h \in issued : h.offset = last.offset /\ h.length = last.length

\* C9: stack pointer invariant.  In every reachable state
\* 0 <= top <= capacity, for the manager and for its peer, and no call of
\* allocate, write or read lowers a stack top.
C9_StackPointer ==
    /\ [](top \in 0 .. Capacity)
    /\ [](\A i \in DOMAIN peer : peer[i] \in 0 .. Capacity)
    /\ [][top' >= top]_vars
    /\ [][\A i \in DOMAIN peer : peer'[i] >= peer[i]]_vars

\* The stack is full after more than one allocation and a call has failed
\* on it.
C9_Witness ==
    /\ top = Capacity
    /\ Cardinality(issued) >= 2
    /\ last.kind = "err" /\ last.err = "OutOfBounds"

\* The pairs (offset, length) of N-bit fields that name a range of the page.
CodecPairs ==
    LET Field == 0 .. (Pow2(NBits) - 1)
    IN  {p \in Field \X Field : p[1] + p[2] <= Capacity}

\* On every such pair: encode gives offset * 2^N + length, decode gives the
\* pair back, and no two pairs share a scalar.
CodecExactOnPairs ==
    /\ \A p \in CodecPairs :
           /\ Encode(p[1], p[2]) = p[1] * Pow2(NBits) + p[2]
           /\ Decode(Encode(p[1], p[2])) = [offset |-> p[1], length |-> p[2]]
    /\ \A p \in CodecPairs, q \in CodecPairs :
           p # q => Encode(p[1], p[2]) # Encode(q[1], q[2])

\* C10: handle codec round trip.  For every offset and length in
\* [0, 2^N - 1] with offset + length <= capacity, encode gives
\* offset * 2^N + length, decode of that scalar gives the pair back, and
\* distinct pairs have distinct scalars; the scalar of every returned handle
\* decodes to that handle.
C10_CodecRoundTrip ==
    /\ CodecExactOnPairs
    /\ IsHandleCall(last) =>
           /\ last.scalar = last.offset * Pow2(NBits) + last.length
           /\ Decode(last.scalar) = HandleOf(last)

\* The scalar of a handle with a non-zero offset has been decoded by a read
\* that returned the bytes of that handle.
C10_Witness ==
    /\ last.op = "read" /\ last.kind = "ok"
    /\ last.offset >= 1 /\ last.length >= 1
    /\ last.scalar = last.offset * Pow2(NBits) + last.length
    /\ \E h \in issued : h.offset = last.offset /\ h.length = last.length

\* C11: every call of write and allocate on a manager, in every reachable
\* state and for every input, ends with a handle, with ZeroLength or with
\* OutOfBounds; the copy into the page never fails once the range is
\* reserved.
C11_ThreeOutcomes ==
    Alive =>
        /\ \A L \in LengthInputs :
               LET a == Allocate(top, L) IN
               \/ a.res.kind = "ok" /\ a.res = Ok(a.res.offset, a.res.length)
               \/ a.res \in {Err("ZeroLength"), Err("OutOfBounds")}
        /\ \A b \in DataInputs :
               LET w == Write(top, mem, b) IN
               \/ w.res.kind = "ok" /\ w.res = Ok(w.res.offset, w.res.length)
               \/ w.res \in {Err("ZeroLength"), Err("OutOfBounds")}

\* C12: a successful write or allocate of length L returns the handle
\* (offset = stack top before the call, length = L) and leaves the stack
\* top at offset + L.  Hence a manager fresh from new gives offset 0, the
\* call after a successful one is given the range that starts where the
\* last one ends, and the handles of a manager lie below its top and do not
\* overlap.
C12_AllocationPostcondition ==
    /\ \A L \in LengthInputs :
           LET a == Allocate(top, L) IN
           a.res.kind = "ok" => (a.res = Ok(top, L) /\ a.top = top + L)
    /\ \A b \in DataInputs :
           LET w == Write(top, mem, b) IN
           w.res.kind = "ok" =>
               (w.res = Ok(top, Len(b)) /\ w.top = top + Len(b))
    /\ last.op = "new" => top = 0
    /\ IsHandleCall(last) =>
           top = last.offset + last.length
    /\ \A h \in issued : h.offset + h.length <= top
    /\ \A h \in issued, g \in issued :
           h # g => (h.offset + h.length <= g.offset
                        \/ g.offset + g.length <= h.offset)

\* An allocation has been made right after the end of an earlier one that
\* started at offset 0.
C12_Witness ==
    /\ last.op = "allocate" /\ last.kind = "ok"
    /\ last.offset >= 1
    /\ top = last.offset + last.length
    /\ \E g \in issued : g.offset = 0 /\ g.length = last.offset

\* C13: earlier data survives later allocations.  A successful write
\* changes only the bytes inside the range it returns, so read of every
\* handle the manager issued before gives the same bytes after the call as
\* before it.
C13_EarlierDataSurvives ==
    \A b \in DataInputs :
        LET w == Write(top, mem, b) IN
        w.res.kind = "ok" =>
            /\ DOMAIN w.mem = DOMAIN mem
            /\ \A i \in MemIndex(mem) :
                   (i < w.res.offset \/ i >= w.res.offset + w.res.length)
                       => w.mem[i] = mem[i]
            /\ \A h \in issued : Read(w.mem, h) = Read(mem, h)

\* A write has followed an earlier handle of the manager, whose first byte
\* differs from the first byte written now and is still in the page.
C13_Witness ==
    /\ last.op = "write" /\ last.kind = "ok"
    /\ \E h \in issued :
           /\ h.offset + h.length <= last.offset
           /\ mem[h.offset] # last.data[1]

\* C14: exact fit succeeds.  A write or allocate of length L with
\* 1 <= L <= max_length and top + L = capacity returns the handle
\* (top, L) and leaves the stack top at the page capacity.
C14_ExactFit ==
    Alive =>
        \A L \in 1 .. MaxLength :
            top + L = Capacity =>
                /\ Allocate(top, L) = [top |-> Capacity, res |-> Ok(top, L)]
                /\ \A b \in DataInputs :
                       Len(b) = L =>
                           LET w == Write(top, mem, b) IN
                           w.res = Ok(top, L) /\ w.top = Capacity

\* C15: allocate(0) returns ZeroLength in every reachable state, the full
\* stack included, and changes nothing.
C15_AllocateZero ==
    Allocate(top, 0) = [top |-> top, res |-> Err("ZeroLength")]

\* On a full stack, allocate(0) has returned ZeroLength.
C15_Witness ==
    /\ top = Capacity
    /\ last.op = "allocate"
    /\ last.kind = "err" /\ last.err = "ZeroLength"

\* ------------------------------------------------- write, step by step
\* The statements of write in the order of the source.  Between the two
\* steps the call is pending: last.kind = "copying", last.data holds the
\* bytes still to be copied.
Pending == last.kind = "copying"

\* write, up to and including self.allocate(..)?: the two early returns,
\* then the reservation and the commit of the range.
WriteAllocate ==
    /\ Alive /\ ~Pending
    /\ \E data \in DataInputs :
           IF TooLong(data) \/ Len(data) = 0
           THEN /\ last' = Call("write",
                                IF TooLong(data) THEN Err("OutOfBounds")
                                ELSE Err(EmptyError), 0, <<>>, <<>>)
                /\ UNCHANGED <<top, peer, mem, issued>>
           ELSE LET a == Allocate(top, AsMemoryInt(Len(data))) IN
                /\ top' = a.top
                /\ last' = IF a.res.kind = "err"
                           THEN Call("write", a.res, 0, <<>>, <<>>)
                           ELSE Call("write",
                                     [a.res EXCEPT !.kind = "copying"],
                                     Encode(a.res.offset, a.res.length),
                                     data, <<>>)
                /\ UNCHANGED <<peer, mem, issued>>

\* write, from self.wasm_memory.set(..) to Ok(mem_buf): the copy of the
\* data to the offset of the handle, then the return of the handle; the
\* panic of expect() when the memory does not hold the range.
WriteCopy ==
    /\ Pending
    /\ LET a == [top |-> top, res |-> Ok(last.offset, last.length)]
           s == MemSet(mem, CopyOffset(a), last.data)
       IN  IF s.kind = "err"
           THEN /\ last' = [last EXCEPT !.kind = "panic", !.data = <<>>]
                /\ UNCHANGED <<top, peer, mem, issued>>
           ELSE /\ mem' = s.mem
                /\ issued' = issued \cup {Issue(a.res)}
                /\ last' = [last EXCEPT !.kind = "ok"]
                /\ UNCHANGED <<top, peer>>

\* Every other step runs only between calls of write: the managers of a
\* memory and the module run on one thread.
StepClone == ~Pending /\ DoClone
StepAllocate == ~Pending /\ DoAllocate
StepRead == ~Pending /\ DoRead
StepPeerAllocate == ~Pending /\ DoPeerAllocate
StepPeerWrite == ~Pending /\ DoPeerWrite
StepGrow == ~Pending /\ DoGrow

NextSteps ==
    \/ StepClone \/ StepAllocate \/ WriteAllocate \/ WriteCopy \/ StepRead
    \/ StepPeerAllocate \/ StepPeerWrite \/ StepGrow

SpecSteps == Init /\ [][NextSteps]_vars

\* C16 as claimed: write copies the bytes before it commits, so while the
\* copy is pending the stack top has not been advanced past the range.
C16_CopyBeforeCommit ==
    Pending => top <= last.offset

\* C16, amended: for a non-empty, non-oversize input write reserves and
\* commits the range, and only then copies the bytes to the reserved
\* offset.  While the copy is pending the stack top is already
\* offset + length and the handle has not been returned; when write
\* returns the handle, the stack top is unchanged by the copy and the
\* bytes of the range are the data.
C16_CommitBeforeCopy ==
    /\ Pending =>
           /\ last.op = "write" /\ last.length = Len(last.data)
           /\ last.length >= 1 /\ last.length <= MaxLength
           /\ top = last.offset + last.length
           /\ \A h \in issued : h.offset + h.length <= last.offset
    /\ (last.op = "write" /\ last.kind = "ok") =>
           /\ top = last.offset + last.length
           /\ Read(mem, HandleOf(last)) =
                  [kind |-> "ok", bytes |-> last.data]

\* A write above the bottom of the stack has committed its range and has
\* not yet copied its bytes, which differ from the bytes in the page.
C16_Witness ==
    /\ Pending /\ last.offset >= 1
    /\ top = last.offset + last.length
    /\ Read(mem, HandleOf(last)).kind = "ok"
    /\ Read(mem, HandleOf(last)).bytes # last.data

\* C17: allocate writes no bytes.  A successful allocate(L) advances the
\* stack top by L and leaves every byte of the page, inside and outside the
\* returned range, as it was.
C17_AllocateWritesNothing ==
    [][(last'.op = "allocate" /\ last'.kind = "ok") =>
          /\ top' = top + last'.length
          /\ last'.offset = top /\ last'.length >= 1
          /\ Allocate(top, last'.length).top = top'
          /\ DOMAIN mem' = DOMAIN mem
          /\ \A i \in MemIndex(mem) : mem'[i] = mem[i]]_vars

\* An allocate has handed out a range above an earlier handle; the range
\* lies in the memory and holds two different bytes, which the allocate did
\* not put there.
C17_Witness ==
    /\ last.op = "allocate" /\ last.kind = "ok" /\ last.offset >= 1
    /\ \E h \in issued : h.offset + h.length <= last.offset
    /\ last.offset + last.length <= MemSize(mem)
    /\ \E i \in MemIndex(mem), j \in MemIndex(mem) :
           /\ i >= last.offset /\ i < j /\ j < last.offset + last.length
           /\ mem[i] # mem[j]

\* C18: read has no effect on the manager.  A read of any handle leaves
\* the stack tops and every byte of the page as they were, so reading the
\* same handle again, with no write in between, returns the same bytes.
C18_ReadChangesNothing ==
    /\ [][last'.op = "read" =>
             (top' = top /\ peer' = peer /\ mem' = mem
                 /\ issued' = issued)]_vars
    /\ [](last.op = "read" =>
             Read(mem, Decode(last.scalar)) =
                 [kind |-> last.kind, bytes |-> last.bytes])

\* A read has returned two different bytes of a handle the manager issued.
C18_Witness ==
    /\ last.op = "read" /\ last.kind = "ok" /\ last.length >= 2
    /\ last.bytes[1] # last.bytes[2]
    /\ HandleOf(last) \in issued
    /\ top >= last.offset + last.length

\* The lengths of the requests that fail with OutOfBounds on a stack whose
\* top is t, and of those that end otherwise.
FailingLengths(t, m) ==
    {L \in LengthInputs : Allocate(t, L).res = Err("OutOfBounds")}
        \cup {Len(b) : b \in {d \in DataInputs :
                                 Write(t, m, d).res = Err("OutOfBounds")}}
PassingLengths(t, m) ==
    {L \in LengthInputs : Allocate(t, L).res # Err("OutOfBounds")}
        \cup {Len(b) : b \in {d \in DataInputs :
                                 Write(t, m, d).res # Err("OutOfBounds")}}

\* Every request that does not fail with OutOfBounds on (t2, m2) is shorter
\* than every request that fails with OutOfBounds on (t, m).
FailuresPersist(t, m, t2, m2) ==
    LET failing == FailingLengths(t, m)
        passing == PassingLengths(t2, m2)
    IN  \A L2 \in passing : \A L \in failing : L2 < L

\* C19: exhaustion is persistent.  If a request of length L fails with
\* OutOfBounds in some state, every request of length >= L fails with
\* OutOfBounds in that state and, whatever call changes the stack or the
\* page next, in the state after it, hence in every later one; at most
\* capacity allocations of a manager succeed, and once that many have, the
\* stack is full and every non-empty request fails with OutOfBounds.
C19_ExhaustionPersists ==
    /\ [](FailuresPersist(top, mem, top, mem))
    /\ [][(top' # top \/ mem' # mem) =>
              FailuresPersist(top, mem, top', mem')]_vars
    /\ [](/\ Cardinality(issued) <= Capacity
          /\ Cardinality(issued) = Capacity =>
                 (top = Capacity /\ PassingLengths(top, mem) = {0}))

\* As many allocations as the page has bytes have succeeded, and a request
\* has then failed with OutOfBounds.
C19_Witness ==
    /\ Cardinality(issued) = Capacity
    /\ last.op \in {"allocate", "write"}
    /\ last.kind = "err" /\ last.err = "OutOfBounds"
====
